---- MODULE Spec2Model ----
(***************************************************************************)
(* Araras.py: a Streamlit dashboard over the sheet "Página1" of            *)
(* Araras.xlsx.  One run of the script is one pass: carregar_dados (cached *)
(* after its first success), the sidebar's three widgets, the filter, the  *)
(* indicators, one of the chart views and the detail table.  Streamlit     *)
(* runs the script again on every widget change.                           *)
(*                                                                         *)
(* Text cells are sequences of one-character strings, so that substring    *)
(* search, case folding and the lexicographic order of group keys are      *)
(* computed and not assumed.  A missing cell (pandas NaN) is the one-      *)
(* element sequence NaN, whose element is no character of any alphabet.    *)
(***************************************************************************)
EXTENDS Integers, Sequences, FiniteSets, TLC

VARIABLES
    pc,             \* where the script is: start, loaded, sidebar, filtered,
                    \* done, stopped (st.stop), crashed (uncaught exception)
    arquivo,        \* the file ARQUIVO_DADOS as pd.read_excel finds it
    cache,          \* st.cache_data holds carregar_dados's result
    df,             \* the Dataset carregar_dados returned
    locais_dtype,   \* dtype of df["Locais"]: "object" or "float64"
    erro,           \* the st.error message shown by carregar_dados
    tipo_opcao, subtipo_opcao, busca_local,   \* the sidebar's widgets
    df_filtrado,
    tela,           \* what the pass has rendered below the header
    total_cameras, total_locais, maior_linha,  \* the three indicators
    df_para_plotar, \* Top-10 view
    df_tipo, df_subtipo_bar, df_subtipo_pie,   \* general view
    tabela          \* detail table: one expander per Subtipo

vars == <<pc, arquivo, cache, df, locais_dtype, erro, tipo_opcao, subtipo_opcao,
          busca_local, df_filtrado, tela, total_cameras, total_locais,
          maior_linha, df_para_plotar, df_tipo, df_subtipo_bar, df_subtipo_pie,
          tabela>>

(***************************************************************************)
(* Bounds of the model.                                                    *)
(***************************************************************************)
\* Rows of the sheet in the general specification.
MaxRows == 2
\* Distinct locations of the sheets of the Top-10 specification.
MaxLocais == 11

(***************************************************************************)
(* Text.                                                                   *)
(***************************************************************************)
NaN == <<"NaN">>
Todos == <<"T", "o", "d", "o", "s">>
Vazio == <<>>

\* Unicode code points: Python compares str by code point.
Ord(c) ==
    CASE c = "(" -> 40  [] c = "-" -> 45  [] c = "." -> 46
      [] c = "1" -> 49  [] c = "2" -> 50  [] c = "7" -> 55
      [] c = "A" -> 65  [] c = "B" -> 66  [] c = "S" -> 83
      [] c = "T" -> 84  [] c = "X" -> 88  [] c = "Y" -> 89
      [] c = "a" -> 97  [] c = "b" -> 98  [] c = "d" -> 100
      [] c = "o" -> 111 [] c = "s" -> 115 [] c = "x" -> 120

\* Case folding of re.IGNORECASE on these characters.
Lower(c) ==
    CASE c = "A" -> "a" [] c = "B" -> "b" [] c = "S" -> "s"
      [] c = "T" -> "t" [] c = "X" -> "x" [] c = "Y" -> "y"
      [] OTHER -> c

RECURSIVE LexLess(_, _)
\* a < b for Python str.
LexLess(a, b) ==
    IF b = <<>> THEN FALSE
    ELSE IF a = <<>> THEN TRUE
    ELSE IF Ord(Head(a)) # Ord(Head(b)) THEN Ord(Head(a)) < Ord(Head(b))
    ELSE LexLess(Tail(a), Tail(b))

Min(a, b) == IF a < b THEN a ELSE b

(***************************************************************************)
(* carregar_dados.                                                         *)
(***************************************************************************)
colunas_necessarias == {"Tipo", "Subtipo", "Locais", "Quantidade"}

\* any(...) in the place of all(...).
ColunasOkAny(colunas) == \E coluna \in colunas_necessarias : coluna \in colunas

\* all(coluna in df.columns for coluna in colunas_necessarias)
ColunasOk(colunas) == \A coluna \in colunas_necessarias : coluna \in colunas

\* A Quantidade cell of the sheet: a number (n, in tenths), a text (s) or
\* nothing.
Num(n) == [k |-> "num", n |-> n, s |-> <<>>]
Texto(s) == [k |-> "text", n |-> 0, s |-> s]
CelulaVazia == [k |-> "nan", n |-> 0, s |-> <<>>]

EhDigito(c) == c \in {"1", "2", "7"}
DigitoVal(c) == Ord(c) - 48

RECURSIVE ParseNat(_)
ParseNat(s) ==
    IF s = <<>> THEN 0
    ELSE 10 * ParseNat(SubSeq(s, 1, Len(s) - 1)) + DigitoVal(s[Len(s)])

SoDigitos(s) == Len(s) > 0 /\ \A i \in 1..Len(s) : EhDigito(s[i])

\* pd.to_numeric(..., errors="coerce") on one cell: [ok, n], n in tenths.
ToNumeric(c) ==
    IF c.k = "num" THEN [ok |-> TRUE, n |-> c.n]
    ELSE IF c.k = "text" /\ SoDigitos(c.s)
        THEN [ok |-> TRUE, n |-> 10 * ParseNat(c.s)]
    ELSE IF c.k = "text" /\ Len(c.s) > 1 /\ c.s[1] = "-" /\ SoDigitos(Tail(c.s))
        THEN [ok |-> TRUE, n |-> 0 - 10 * ParseNat(Tail(c.s))]
    ELSE [ok |-> FALSE, n |-> 0]

\* astype(int) of a float: truncation toward zero.
AsType_int(n) == IF n >= 0 THEN n \div 10 ELSE 0 - ((0 - n) \div 10)

\* dropna(subset=["Quantidade", "Subtipo", "Locais"]) keeps the row.
DropnaKeeps(r) ==
    ToNumeric(r.Quantidade).ok /\ r.Subtipo # NaN /\ r.Locais # NaN

\* The rows of the sheet with read_excel's RangeIndex labels 0, 1, ...
Indexed(rows) ==
    [i \in 1..Len(rows) |->
        [idx |-> i - 1, Tipo |-> rows[i].Tipo, Subtipo |-> rows[i].Subtipo,
         Locais |-> rows[i].Locais, Quantidade |-> rows[i].Quantidade]]

LimparLinha(r) ==
    [idx |-> r.idx, Tipo |-> r.Tipo, Subtipo |-> r.Subtipo, Locais |-> r.Locais,
     Quantidade |-> AsType_int(ToNumeric(r.Quantidade).n)]

RECURSIVE MapLimpar(_)
MapLimpar(rows) ==
    IF rows = <<>> THEN <<>>
    ELSE <<LimparLinha(Head(rows))>> \o MapLimpar(Tail(rows))

\* Lines 37-39: the cleaned Dataset.
Limpar(rows) == MapLimpar(SelectSeq(Indexed(rows), DropnaKeeps))

\* dtype read_excel infers for the Locais column: object when the column
\* holds a text (or has no row at all), float64 when every cell is empty.
DtypeLocais(rows) ==
    IF rows = <<>> \/ \E i \in 1..Len(rows) : rows[i].Locais # NaN
    THEN "object" ELSE "float64"

(***************************************************************************)
(* The filter (lines 69-75).                                               *)
(***************************************************************************)
\* re.compile(busca_local): of the characters modelled only "(" is
\* special beyond ".", and with no ")" to close it the pattern is an error.
CompilaOk(pat) == \A i \in 1..Len(pat) : pat[i] # "("

\* One pattern character against one character under re.IGNORECASE.
CharCasa(p, c) == p = "." \/ Lower(p) = Lower(c)

\* pat.search(s) is not None, for a pattern of literals and dots.
Search(pat, s) ==
    \E i \in 0..(Len(s) - Len(pat)) :
        \A j \in 1..Len(pat) : CharCasa(pat[j], s[i + j])

\* Series.str.contains(busca_local, case=False, na=False) on one cell.
Contains(locais, pat) == IF locais = NaN THEN FALSE ELSE Search(pat, locais)

\* The mask of line 73 taken from the unfiltered frame and applied by
\* position.
MascaraPosicional(d, cur, s) ==
    LET n == Len(cur)
        keep == {i \in 1..n : d[i].Subtipo = s}
        F[i \in 0..n] ==
            IF i = 0 THEN <<>>
            ELSE IF i \in keep THEN Append(F[i - 1], cur[i]) ELSE F[i - 1]
    IN F[n]

FiltrarPosicional(d, t, s, b) ==
    LET porTipo(r) == r.Tipo = t
        porBusca(r) == Contains(r.Locais, b)
        f1 == IF t # Todos THEN SelectSeq(d, porTipo) ELSE d
        f2 == IF s # Todos THEN MascaraPosicional(d, f1, s) ELSE f1
    IN IF b # Vazio THEN SelectSeq(f2, porBusca) ELSE f2

\* The filter with the first matching row cut off (a slice from 1).
FiltrarSemPrimeira(d, t, s, b) ==
    LET sat(r) ==
            /\ t = Todos \/ r.Tipo = t
            /\ s = Todos \/ r.Subtipo = s
            /\ b = Vazio \/ Contains(r.Locais, b)
        f == SelectSeq(d, sat)
    IN IF f = <<>> THEN f ELSE Tail(f)

\* df_filtrado for the FilterState (t, s, b), b compiling.
Filtrar(d, t, s, b) ==
    LET porTipo(r) == r.Tipo = t
        porSubtipo(r) == r.Subtipo = s
        porBusca(r) == Contains(r.Locais, b)
        f1 == IF t # Todos THEN SelectSeq(d, porTipo) ELSE d
        f2 == IF s # Todos THEN SelectSeq(f1, porSubtipo) ELSE f1
    IN IF b # Vazio THEN SelectSeq(f2, porBusca) ELSE f2

\* busca_local makes line 75 raise: re.error from the pattern, or
\* AttributeError from .str on a float64 column.
BuscaLevanta(b, dtype) == b # Vazio /\ (~CompilaOk(b) \/ dtype # "object")

(***************************************************************************)
(* Aggregates.                                                             *)
(***************************************************************************)
RECURSIVE Soma(_)
\* Series.sum() of Quantidade.
Soma(d) == IF d = <<>> THEN 0 ELSE Head(d).Quantidade + Soma(Tail(d))

\* The non-missing values of a column.
Valores(d, campo) == {d[i][campo] : i \in 1..Len(d)} \ {NaN}

\* Series.nunique()
NUnique(d, campo) == Cardinality(Valores(d, campo))

\* The index label of the last occurrence of the maximum.
IdxMaxUltimo(d) ==
    LET m == CHOOSE i \in 1..Len(d) :
                /\ \A j \in 1..Len(d) : d[j].Quantidade <= d[i].Quantidade
                /\ \A j \in (i + 1)..Len(d) : d[j].Quantidade < d[i].Quantidade
    IN d[m].idx

\* Series.idxmax(): the index label of the first occurrence of the maximum.
IdxMax(d) ==
    LET m == CHOOSE i \in 1..Len(d) :
                /\ \A j \in 1..Len(d) : d[j].Quantidade <= d[i].Quantidade
                /\ \A j \in 1..(i - 1) : d[j].Quantidade < d[i].Quantidade
    IN d[m].idx

\* DataFrame.loc[label]: the row of that index label.
Loc(d, label) == d[CHOOSE i \in 1..Len(d) : d[i].idx = label]

RECURSIVE SortedKeys(_)
\* The keys in ascending order.
SortedKeys(S) ==
    IF S = {} THEN <<>>
    ELSE LET m == CHOOSE k \in S : \A j \in S \ {k} : LexLess(k, j)
         IN <<m>> \o SortedKeys(S \ {m})

\* The keys in the order of their first appearance (groupby(sort=False)).
ChavesPrimeiraAparicao(d, campo) ==
    LET F[i \in 0..Len(d)] ==
            IF i = 0 THEN <<>>
            ELSE IF d[i][campo] = NaN
                    \/ \E j \in 1..(i - 1) : d[j][campo] = d[i][campo]
                 THEN F[i - 1]
                 ELSE Append(F[i - 1], d[i][campo])
    IN F[Len(d)]

\* The group keys of groupby(campo): sort=True, dropna=True.
Chaves(d, campo) == SortedKeys(Valores(d, campo))

\* The rows of one group, in the frame's order.
Grupo(d, campo, chave) ==
    LET doGrupo(r) == r[campo] = chave IN SelectSeq(d, doGrupo)

\* groupby(campo)["Quantidade"].sum() as a frame: one row per group.
GroupBySum(d, campo) ==
    LET ch == Chaves(d, campo)
    IN [i \in 1..Len(ch) |->
            [chave |-> ch[i], Quantidade |-> Soma(Grupo(d, campo, ch[i]))]]

\* seq without its element at position p.
SemPos(seq, p) == SubSeq(seq, 1, p - 1) \o SubSeq(seq, p + 1, Len(seq))

\* The frame left in the order it has (the sort forgotten).
SemOrdenar(seq, empate) == seq

RECURSIVE SortValuesDesc(_, _)
\* sort_values("Quantidade", ascending=False).  The default kind is
\* quicksort, which promises no order among equal values: empate says
\* whether equal values keep ("primeiro") or reverse ("ultimo") their order.
SortValuesDesc(seq, empate) ==
    IF seq = <<>> THEN <<>>
    ELSE LET maxs == {i \in 1..Len(seq) :
                        \A j \in 1..Len(seq) : seq[j].Quantidade <= seq[i].Quantidade}
             p == IF empate = "primeiro"
                  THEN CHOOSE i \in maxs : \A j \in maxs : i <= j
                  ELSE CHOOSE i \in maxs : \A j \in maxs : i >= j
         IN <<seq[p]>> \o SortValuesDesc(SemPos(seq, p), empate)

\* df_locais (line 101).
DfLocais(d, empate) == SortValuesDesc(GroupBySum(d, "Locais"), empate)

top_n == 10

\* DataFrame.head(n)
HeadN(seq, n) == SubSeq(seq, 1, Min(n, Len(seq)))

\* Lines 150-161: per Subtipo, its total and its rows by Quantidade.
TabelaDetalhada(d, empate) ==
    LET ch == Chaves(d, "Subtipo")
        colunas(r) == [Locais |-> r.Locais, Quantidade |-> r.Quantidade]
        mostra(g) == [i \in 1..Len(g) |-> colunas(g[i])]
    IN [i \in 1..Len(ch) |->
            LET grupo == Grupo(d, "Subtipo", ch[i])
            IN [subtipo |-> ch[i], total |-> Soma(grupo),
                linhas |-> mostra(SortValuesDesc(grupo, empate))]]

\* Line 98: the detailed view, else the general view.
VistaDetalhada(tipo, subtipo) == subtipo # Todos

(***************************************************************************)
(* The files the model reads.                                              *)
(***************************************************************************)
X == <<"X">>
Y == <<"Y">>
S1 == <<"S", "1">>
S2 == <<"S", "2">>

Linha(t, s, l, q) == [Tipo |-> t, Subtipo |-> s, Locais |-> l, Quantidade |-> q]

\* The rows a sheet of the general specification is made of: regular rows,
\* rows with one cell missing, and rows whose Quantidade is a fraction, a
\* negative number or a text.
LinhasPlanilha ==
    { Linha(X, S1, <<"A", "b">>, Num(50)),
      Linha(X, S2, <<"a", ".">>, Num(50)),
      Linha(Y, S2, <<"A", "b">>, Num(30)),
      Linha(Y, S1, <<"a", ".">>, Num(27)),
      Linha(NaN, S1, <<"A", "b">>, Num(50)),
      Linha(X, NaN, <<"A", "b">>, Num(50)),
      Linha(X, S1, NaN, Num(50)),
      Linha(X, S1, <<"A", "b">>, Texto(<<"x">>)),
      Linha(Y, S1, <<"a", ".">>, Texto(<<"7">>)),
      Linha(X, S2, <<"b">>, Num(-30)),
      Linha(Y, S2, <<"b">>, CelulaVazia),
      Linha(Y, S1, <<"b">>, Texto(<<"-", "1", "2">>)) }

SeqsUpTo(S, n) == UNION {[1..k -> S] : k \in 0..n}

ArquivoAusente == [existe |-> FALSE, colunas |-> {}, linhas |-> <<>>]

\* A sheet that lacks one of the four columns.
ArquivosSemColuna ==
    {[existe |-> TRUE, colunas |-> colunas_necessarias \ {c}, linhas |-> <<>>] :
        c \in colunas_necessarias}

Planilha(linhas) ==
    [existe |-> TRUE, colunas |-> colunas_necessarias, linhas |-> linhas]

Arquivos ==
    {ArquivoAusente} \cup ArquivosSemColuna
        \cup {Planilha(l) : l \in SeqsUpTo(LinhasPlanilha, MaxRows)}

\* The name of the i-th location of a Top-10 sheet: i times "b".
LocalNome(i) == [j \in 1..i |-> "b"]

Perfis == {"asc", "desc", "flat", "mix"}

\* The Quantidade of location i of n under a profile.
Perfil(p, i, n) ==
    CASE p = "asc" -> i
      [] p = "desc" -> n + 1 - i
      [] p = "flat" -> 4
      [] p = "mix" -> ((i * 3) % 5) + 1

LinhasTop(n, p) ==
    [i \in 1..n |-> Linha(X, S1, LocalNome(i), Num(10 * Perfil(p, i, n)))]

\* Sheets of top_n .. MaxLocais locations, all of one Subtipo, some with a
\* second row for one location.
ArquivosTop ==
    {ArquivoAusente} \cup ArquivosSemColuna
        \cup {Planilha(LinhasTop(n, p)) : n \in top_n..MaxLocais, p \in Perfis}
        \cup UNION {{Planilha(Append(LinhasTop(n, p),
                                     Linha(X, S1, LocalNome(k), Num(30)))) :
                        p \in Perfis, k \in {1, n}} : n \in top_n..MaxLocais}

\* What the user may type in "Buscar por nome do local".
Buscas ==
    { Vazio, <<"a">>, <<"B">>, <<".">>, <<"(">>, <<"a", ".">>, <<".", "b">> }

(***************************************************************************)
(* The state machine.                                                      *)
(***************************************************************************)
SemSaida ==
    /\ tela = {}
    /\ total_cameras = 0 /\ total_locais = 0 /\ maior_linha = <<>>
    /\ df_para_plotar = <<>> /\ df_tipo = <<>> /\ df_subtipo_bar = <<>>
    /\ df_subtipo_pie = <<>> /\ tabela = <<>>

InitCom(arquivos) ==
    /\ pc = "start"
    /\ arquivo \in arquivos
    /\ cache = FALSE /\ df = <<>> /\ locais_dtype = "object"
    /\ erro = "none"
    /\ tipo_opcao = Todos /\ subtipo_opcao = Todos /\ busca_local = Vazio
    /\ df_filtrado = <<>>
    /\ SemSaida

Init == InitCom(Arquivos)

InitTop == InitCom(ArquivosTop)

saidas == <<tela, total_cameras, total_locais, maior_linha, df_para_plotar,
            df_tipo, df_subtipo_bar, df_subtipo_pie, tabela>>
filtros == <<tipo_opcao, subtipo_opcao, busca_local>>
dados == <<cache, df, locais_dtype>>

\* Lines 24-28: read_excel raises FileNotFoundError; st.error, st.stop.
CarregarNaoEncontrado ==
    /\ pc = "start"
    /\ ~arquivo.existe
    /\ erro' = "NotFound"
    /\ pc' = "stopped"
    /\ UNCHANGED <<arquivo, dados, filtros, df_filtrado, saidas>>

\* Lines 31-34: a required column is absent; st.error, st.stop.
CarregarSemColuna ==
    /\ pc = "start"
    /\ arquivo.existe
    /\ ~ColunasOk(arquivo.colunas)
    /\ erro' = "Schema"
    /\ pc' = "stopped"
    /\ UNCHANGED <<arquivo, dados, filtros, df_filtrado, saidas>>

\* Lines 36-40 and 43: the cleaned frame is returned and cached.
CarregarOk ==
    /\ pc = "start"
    /\ arquivo.existe
    /\ ColunasOk(arquivo.colunas)
    /\ df' = Limpar(arquivo.linhas)
    /\ locais_dtype' = DtypeLocais(arquivo.linhas)
    /\ cache' = TRUE
    /\ pc' = "loaded"
    /\ UNCHANGED <<arquivo, erro, filtros, df_filtrado, saidas>>

\* Lines 57-58: the options of the Tipo selectbox.
OpcoesTipo(d) == {Todos} \cup Valores(d, "Tipo")

\* Lines 60-64: the options of the Subtipo selectbox.
OpcoesSubtipo(d, t) ==
    LET porTipo(r) == r.Tipo = t
    IN {Todos} \cup
        (IF t # Todos THEN Valores(SelectSeq(d, porTipo), "Subtipo")
         ELSE Valores(d, "Subtipo"))

\* Lines 54-66: the three widgets return the user's choice.
Sidebar ==
    /\ pc = "loaded"
    /\ \E t \in OpcoesTipo(df) :
       \E s \in OpcoesSubtipo(df, t) :
       \E b \in Buscas :
            /\ tipo_opcao' = t
            /\ subtipo_opcao' = s
            /\ busca_local' = b
    /\ pc' = "sidebar"
    /\ UNCHANGED <<arquivo, dados, erro, df_filtrado, saidas>>

\* Lines 69-75.
FiltrarOk ==
    /\ pc = "sidebar"
    /\ ~BuscaLevanta(busca_local, locais_dtype)
    /\ df_filtrado' = Filtrar(df, tipo_opcao, subtipo_opcao, busca_local)
    /\ pc' = "filtered"
    /\ UNCHANGED <<arquivo, dados, erro, filtros, saidas>>

\* Line 75 raises; the script ends with the exception on the page.
FiltrarLevanta ==
    /\ pc = "sidebar"
    /\ BuscaLevanta(busca_local, locais_dtype)
    /\ pc' = "crashed"
    /\ UNCHANGED <<arquivo, dados, erro, filtros, df_filtrado, saidas>>

\* Lines 80-81.
RenderVazio ==
    /\ pc = "filtered"
    /\ df_filtrado = <<>>
    /\ tela' = {"warning"}
    /\ pc' = "done"
    /\ UNCHANGED <<arquivo, dados, erro, filtros, df_filtrado, total_cameras,
                   total_locais, maior_linha, df_para_plotar, df_tipo,
                   df_subtipo_bar, df_subtipo_pie, tabela>>

\* Lines 83-92 and 148-161, shared by the two views.
Indicadores(e) ==
    /\ total_cameras' = Soma(df_filtrado)
    /\ total_locais' = NUnique(df_filtrado, "Locais")
    /\ maior_linha' = Loc(df_filtrado, IdxMax(df_filtrado))
    /\ tabela' = TabelaDetalhada(df_filtrado, e)

\* Lines 98-116 with the indicators and the table.
RenderTop10 ==
    /\ pc = "filtered"
    /\ df_filtrado # <<>>
    /\ VistaDetalhada(tipo_opcao, subtipo_opcao)
    /\ \E e1 \in {"primeiro", "ultimo"}, e2 \in {"primeiro", "ultimo"} :
        /\ df_para_plotar' = HeadN(DfLocais(df_filtrado, e1), top_n)
        /\ Indicadores(e2)
    /\ tela' = {"kpis", "top10", "tabela"}
    /\ pc' = "done"
    /\ UNCHANGED <<arquivo, dados, erro, filtros, df_filtrado, df_tipo,
                   df_subtipo_bar, df_subtipo_pie>>

\* Lines 118-144 with the indicators and the table.
RenderGeral ==
    /\ pc = "filtered"
    /\ df_filtrado # <<>>
    /\ ~VistaDetalhada(tipo_opcao, subtipo_opcao)
    /\ \E e2 \in {"primeiro", "ultimo"} : Indicadores(e2)
    /\ IF tipo_opcao = Todos
       THEN /\ df_tipo' = GroupBySum(df_filtrado, "Tipo")
            /\ df_subtipo_bar' = df_subtipo_bar
            /\ tela' = {"kpis", "bar_tipo", "pie", "tabela"}
       ELSE /\ df_subtipo_bar' = GroupBySum(df_filtrado, "Subtipo")
            /\ df_tipo' = df_tipo
            /\ tela' = {"kpis", "bar_subtipo", "pie", "tabela"}
    /\ df_subtipo_pie' = GroupBySum(df_filtrado, "Subtipo")
    /\ pc' = "done"
    /\ UNCHANGED <<arquivo, dados, erro, filtros, df_filtrado, df_para_plotar>>

\* A widget changes: Streamlit runs the script again from its first line,
\* with the cache as it is.
Rerun ==
    /\ pc \in {"done", "crashed", "stopped"}
    /\ pc' = IF cache THEN "loaded" ELSE "start"
    /\ erro' = "none"
    /\ tipo_opcao' = Todos /\ subtipo_opcao' = Todos /\ busca_local' = Vazio
    /\ df_filtrado' = <<>>
    /\ tela' = {}
    /\ total_cameras' = 0 /\ total_locais' = 0 /\ maior_linha' = <<>>
    /\ df_para_plotar' = <<>> /\ df_tipo' = <<>> /\ df_subtipo_bar' = <<>>
    /\ df_subtipo_pie' = <<>> /\ tabela' = <<>>
    /\ UNCHANGED <<arquivo, dados>>

Next ==
    \/ CarregarNaoEncontrado
    \/ CarregarSemColuna
    \/ CarregarOk
    \/ Sidebar
    \/ FiltrarOk
    \/ FiltrarLevanta
    \/ RenderVazio
    \/ RenderTop10
    \/ RenderGeral
    \/ Rerun

Spec == Init /\ [][Next]_vars

SpecTop == InitTop /\ [][Next]_vars

(***************************************************************************)
(* Properties.                                                             *)
(***************************************************************************)
\* The keys of a group-by-sum frame, in its row order.
ChavesDe(g) == [i \in 1..Len(g) |-> g[i].chave]

\* The sheet row a Dataset record came from.
LinhaDeOrigem(r) == arquivo.linhas[r.idx + 1]

\* C1: every record of the Dataset returned by carregar_dados has a
\* non-negative integer Quantidade and a present Subtipo and Locais, and comes
\* from a sheet row whose Quantidade is numeric and whose Subtipo and Locais
\* are present.
C1_RegistrosValidos ==
    cache =>
        \A i \in 1..Len(df) :
            /\ df[i].Quantidade \in Nat
            /\ df[i].Subtipo # NaN
            /\ df[i].Locais # NaN
            /\ ToNumeric(LinhaDeOrigem(df[i]).Quantidade).ok
            /\ LinhaDeOrigem(df[i]).Subtipo # NaN
            /\ LinhaDeOrigem(df[i]).Locais # NaN

\* A record satisfies every active predicate of the FilterState.
Satisfaz(r) ==
    /\ tipo_opcao = Todos \/ r.Tipo = tipo_opcao
    /\ subtipo_opcao = Todos \/ r.Subtipo = subtipo_opcao
    /\ busca_local = Vazio \/ Contains(r.Locais, busca_local)

ContemLiteral(locais, s) ==
    /\ locais # NaN
    /\ \E i \in 0..(Len(locais) - Len(s)) :
            \A j \in 1..Len(s) : Lower(s[j]) = Lower(locais[i + j])

\* A record passes the category and subcategory and holds the search term
\* literally.
SatisfazLiteral(r) ==
    /\ tipo_opcao = Todos \/ r.Tipo = tipo_opcao
    /\ subtipo_opcao = Todos \/ r.Subtipo = subtipo_opcao
    /\ ContemLiteral(r.Locais, busca_local)

\* C3: for every non-empty search term, whatever its characters, the filter
\* yields a result, and keeps a record if and only if the term is a literal
\* substring of its Locais, case ignored.
C3_BuscaLiteral ==
    (pc \in {"filtered", "crashed"} /\ busca_local # Vazio) =>
        /\ pc = "filtered"
        /\ df_filtrado = SelectSeq(df, SatisfazLiteral)

\* C4: the "Local com Mais Câmeras" row is the first row of the filtered
\* result that has the largest Quantidade.
C4_MaiorLinhaPrimeira ==
    "kpis" \in tela =>
        \E i \in 1..Len(df_filtrado) :
            /\ maior_linha = df_filtrado[i]
            /\ \A j \in 1..Len(df_filtrado) :
                    df_filtrado[j].Quantidade <= maior_linha.Quantidade
            /\ \A j \in 1..(i - 1) :
                    df_filtrado[j].Quantidade < maior_linha.Quantidade

\* Two rows of different Locais share the largest Quantidade and the first
\* is shown.
C4_Witness ==
    /\ "kpis" \in tela
    /\ Len(df_filtrado) >= 2
    /\ df_filtrado[1].Quantidade = df_filtrado[2].Quantidade
    /\ df_filtrado[1].Locais # df_filtrado[2].Locais
    /\ \A j \in 1..Len(df_filtrado) :
            df_filtrado[j].Quantidade <= df_filtrado[1].Quantidade
    /\ maior_linha = df_filtrado[1]

\* The sum of Quantidade over the filtered records of one location.
SomaDoLocal(l) ==
    LET doLocal(r) == r.Locais = l IN Soma(SelectSeq(df_filtrado, doLocal))

\* C5: the Top-10 table has at most 10 rows, one per distinct Locais, each
\* with the sum of Quantidade of that Locais in the filtered result, in
\* non-increasing order of the sums, and no location left out has a larger
\* sum than a location plotted.
C5_Top10 ==
    "top10" \in tela =>
        LET n == Len(df_para_plotar)
            plotados == {df_para_plotar[i].chave : i \in 1..n}
        IN /\ n <= 10
           /\ \A i \in 1..n, j \in 1..n :
                  i # j => df_para_plotar[i].chave # df_para_plotar[j].chave
           /\ plotados \subseteq Valores(df_filtrado, "Locais")
           /\ \A i \in 1..n :
                  df_para_plotar[i].Quantidade = SomaDoLocal(df_para_plotar[i].chave)
           /\ \A i \in 1..(n - 1) :
                  df_para_plotar[i].Quantidade >= df_para_plotar[i + 1].Quantidade
           /\ \A l \in Valores(df_filtrado, "Locais") \ plotados :
                  \A i \in 1..n : SomaDoLocal(l) <= df_para_plotar[i].Quantidade

\* More than 10 locations are filtered, one of them with two records, the
\* table is cut to 10 rows and its sums are not all equal.
C5_Witness ==
    /\ "top10" \in tela
    /\ NUnique(df_filtrado, "Locais") > 10
    /\ Len(df_filtrado) > NUnique(df_filtrado, "Locais")
    /\ Len(df_para_plotar) = 10
    /\ df_para_plotar[1].Quantidade > df_para_plotar[10].Quantidade

\* C6 as stated: in the three breakdown views the groups appear in the
\* order in which each key first appears in the filtered result.
C6_OrdemPrimeiraAparicao ==
    /\ "bar_tipo" \in tela =>
            ChavesDe(df_tipo) = ChavesPrimeiraAparicao(df_filtrado, "Tipo")
    /\ "bar_subtipo" \in tela =>
            ChavesDe(df_subtipo_bar) = ChavesPrimeiraAparicao(df_filtrado, "Subtipo")
    /\ "pie" \in tela =>
            ChavesDe(df_subtipo_pie) = ChavesPrimeiraAparicao(df_filtrado, "Subtipo")

\* The keys of g are the present values of campo, in ascending order.
EmOrdemCrescente(g, campo) ==
    /\ {g[i].chave : i \in 1..Len(g)} = Valores(df_filtrado, campo)
    /\ \A i \in 1..(Len(g) - 1) : LexLess(g[i].chave, g[i + 1].chave)

\* C6 as amended: in the three breakdown views the groups are the present
\* values of the key, each once, in ascending order of the key.
C6_OrdemChaveCrescente ==
    /\ "bar_tipo" \in tela => EmOrdemCrescente(df_tipo, "Tipo")
    /\ "bar_subtipo" \in tela => EmOrdemCrescente(df_subtipo_bar, "Subtipo")
    /\ "pie" \in tela => EmOrdemCrescente(df_subtipo_pie, "Subtipo")

\* A category chart whose keys first appear in descending order.
C6_Witness ==
    /\ "bar_tipo" \in tela
    /\ Len(df_tipo) >= 2
    /\ ChavesDe(df_tipo) # ChavesPrimeiraAparicao(df_filtrado, "Tipo")

\* The presentation states a pass has rendered.
Estados ==
    {e \in {"warning", "top10", "geral"} :
        \/ e = "warning" /\ "warning" \in tela
        \/ e = "top10" /\ "top10" \in tela
        \/ e = "geral" /\ tela \cap {"bar_tipo", "bar_subtipo", "pie"} # {}}

\* What a pass over the filtered result renders, by the FilterState.
TelaEsperada ==
    IF SelectSeq(df, Satisfaz) = <<>> THEN {"warning"}
    ELSE IF subtipo_opcao # Todos THEN {"kpis", "top10", "tabela"}
    ELSE IF tipo_opcao = Todos THEN {"kpis", "bar_tipo", "pie", "tabela"}
    ELSE {"kpis", "bar_subtipo", "pie", "tabela"}

\* C7: every pass that got to the filter ends with exactly one presentation
\* state rendered, the one its FilterState and the Dataset determine: the
\* warning alone for an empty result, else the Top-10 view if and only if a
\* subcategory is selected, else the general view with the category chart
\* for category "Todos" and the subcategory chart otherwise.
C7_UmEstadoPorPasse ==
    pc \in {"done", "crashed"} =>
        /\ Cardinality(Estados) = 1
        /\ tela = TelaEsperada

\* C7 for the passes whose filter step returns.
C7_UmEstadoSeFiltrou ==
    pc = "done" =>
        /\ Cardinality(Estados) = 1
        /\ tela = TelaEsperada

\* A required column is absent or the file is.
FaltaEntrada ==
    ~arquivo.existe \/ ~(colunas_necessarias \subseteq arquivo.colunas)

\* C8: with the file or a required column missing, the pass stops at
\* carregar_dados with its message and yields no Dataset, no filtered result
\* and nothing rendered; with the file and the four columns there, no error
\* is raised.
C8_ErroFatal ==
    /\ FaltaEntrada =>
            /\ pc \in {"start", "stopped"}
            /\ ~cache /\ df = <<>> /\ df_filtrado = <<>> /\ tela = {}
            /\ pc = "stopped" =>
                    erro = IF arquivo.existe THEN "Schema" ELSE "NotFound"
    /\ ~FaltaEntrada => erro = "none" /\ pc # "stopped"

\* A sheet without the column Tipo has stopped the pass.
C8_Witness ==
    /\ pc = "stopped"
    /\ erro = "Schema"
    /\ "Tipo" \notin arquivo.colunas

\* C9: the filter applied with the same FilterState to its own result
\* returns that result.
C9_Idempotente ==
    pc \in {"filtered", "done"} =>
        /\ ~BuscaLevanta(busca_local, locais_dtype)
        /\ Filtrar(df_filtrado, tipo_opcao, subtipo_opcao, busca_local) = df_filtrado

\* A search has kept part of the Dataset.
C9_Witness ==
    /\ pc = "filtered"
    /\ busca_local # Vazio
    /\ df_filtrado # <<>>
    /\ Len(df_filtrado) < Len(df)

\* C10: with category and subcategory "Todos", the bars of the category
\* breakdown add up to "Total de Câmeras".
C10_BarrasSomamTotal ==
    "bar_tipo" \in tela => Soma(df_tipo) = total_cameras

====
